---- MODULE Spec2Model ----
(***************************************************************************)
(* Model of vallenae.io._database.Database: one handle object at a time    *)
(* over one backing SQLite file.  The file is described by its catalog     *)
(* (which tables exist), its committed content (disk) and the content seen *)
(* through the open connection, uncommitted changes included (view).       *)
(* Spec is that handle with every operation; SpecParams adds a             *)
(* collaborator's writes to the parameter table; SpecFaults adds a commit  *)
(* the engine refuses; SpecWriters is two write handles constructed on     *)
(* one file, statement by statement (writers, shared).                     *)
(*                                                                         *)
(* Exceptions are named after the error taxonomy of the specification:     *)
(*   NotConnected      RuntimeError raised by Database.connection          *)
(*   ReadOnlyViolation ValueError raised by require_write_access           *)
(*   InvalidFormat     ValueError raised by the extension check            *)
(*   SchemaError       ValueError raised by the main-table check           *)
(*   OpenFailed        sqlite3.OperationalError raised by sqlite3.connect  *)
(*   QueryFailed       sqlite3.OperationalError raised by execute          *)
(*   NotFound          ValueError raised by _parameter                     *)
(*   DecodeError       ValueError of ast.literal_eval that try_convert_    *)
(*                     string does not catch                               *)
(*   AttributeError    read of an attribute __init__ never assigned        *)
(***************************************************************************)
EXTENDS Integers, Sequences, FiniteSets, TLC

\* ---------------------------------------------------------------- bounds
MaxRowid == 2

\* ------------------------------------------------------ texts and values
\* A text is a sequence of one-character strings.
DigitChars == <<"0", "1", "2", "3", "4", "5", "6", "7", "8", "9">>
LetterChars == {"a", "b", "c", "d", "e", "l", "o", "n", "r", "s", "u",
                "D", "B", "F", "N", "T"}

IsDigit(c) == \E i \in 1..10 : DigitChars[i] = c
IsLetter(c) == c \in LetterChars
DigitValue(c) == (CHOOSE i \in 1..10 : DigitChars[i] = c) - 1

\* str(n) for a non-negative integer n
RECURSIVE IntToText(_)
IntToText(n) ==
  IF n < 10 THEN <<DigitChars[n + 1]>>
  ELSE IntToText(n \div 10) \o <<DigitChars[(n % 10) + 1]>>

\* int(t) for a text of decimal digits
RECURSIVE TextToInt(_)
TextToInt(t) ==
  IF Len(t) = 0 THEN 0
  ELSE 10 * TextToInt(SubSeq(t, 1, Len(t) - 1)) + DigitValue(t[Len(t)])

\* Values held in a column of the store: NULL, an integer, or a text.
SqlNull == [t |-> "null", n |-> 0, s |-> <<>>]
SqlInt(n) == [t |-> "integer", n |-> n, s |-> <<>>]
SqlText(s) == [t |-> "text", n |-> 0, s |-> s]

\* Python values returned to the caller.
PyNone == [t |-> "NoneType", n |-> 0, s |-> <<>>]
PyInt(n) == [t |-> "int", n |-> n, s |-> <<>>]
PyBool(b) == [t |-> "bool", n |-> IF b THEN 1 ELSE 0, s |-> <<>>]
PyStr(s) == [t |-> "str", n |-> 0, s |-> s]

NoneText == <<"N", "o", "n", "e">>
TrueText == <<"T", "r", "u", "e">>
FalseText == <<"F", "a", "l", "s", "e">>

\* str(row[1]) in globalinfo: the text of a fetched column value
Str(v) ==
  CASE v.t = "null" -> NoneText
    [] v.t = "integer" -> IntToText(v.n)
    [] OTHER -> v.s

\* A decimal integer literal: digits only, no leading zero unless all zero.
IsIntLiteral(t) ==
  /\ Len(t) > 0
  /\ \A i \in 1..Len(t) : IsDigit(t[i])
  /\ \/ Len(t) = 1
     \/ t[1] # "0"
     \/ \A i \in 1..Len(t) : t[i] = "0"

\* A name: a letter followed by letters and digits.
IsName(t) ==
  /\ Len(t) > 0
  /\ IsLetter(t[1])
  /\ \A i \in 1..Len(t) : IsLetter(t[i]) \/ IsDigit(t[i])

\* ast.literal_eval on the texts of the model's alphabet (digits, letters,
\* "+"): the value of a literal, ValueError for a name that is no constant
\* ("malformed node or string"), SyntaxError for text that does not parse.
literal_eval(t) ==
  CASE t = NoneText -> [exc |-> "none", val |-> PyNone]
    [] t = TrueText -> [exc |-> "none", val |-> PyBool(TRUE)]
    [] t = FalseText -> [exc |-> "none", val |-> PyBool(FALSE)]
    [] IsIntLiteral(t) -> [exc |-> "none", val |-> PyInt(TextToInt(t))]
    [] IsName(t) /\ t \notin {NoneText, TrueText, FalseText} ->
         [exc |-> "ValueError", val |-> PyNone]
    [] OTHER -> [exc |-> "SyntaxError", val |-> PyNone]

\* try_convert_string, given the outcome r of literal_eval(value): only
\* SyntaxError is caught; any other exception propagates to the caller of
\* globalinfo.
try_convert_result(value, r) ==
  CASE r.exc = "none" -> r
    [] r.exc = "SyntaxError" -> [exc |-> "none", val |-> PyStr(value)]
    [] OTHER -> r

try_convert_string(value) == try_convert_result(value, literal_eval(value))

\* ------------------------------------------------------------- the store
Prefixes == {"pri", "tra"}
StorePrefix == "pri"
Keys == {"ValidSets", "TRAI", "Version"}

TableName(prefix, suffix) == <<prefix, suffix>>

\* Texts a global-info value is drawn from: an integer literal ("12") for
\* the summary keys; a bare word ("abc") or text that is no expression
\* ("1+") for the key Version.
IntegerText == <<"1", "2">>
SampleTexts == {<<"a", "b", "c">>, <<"1", "+">>}

Max(S) == CHOOSE x \in S : \A y \in S : y <= x

\* SELECT COUNT(*) FROM <prefix>_data
select_count(content) == Cardinality(DOMAIN content.main)

\* Variant: COUNT(*) in place of MAX(rowid)
select_count_as_max(content) == SqlInt(Cardinality(DOMAIN content.main))

\* SELECT MAX(rowid) FROM <prefix>_data: NULL on an empty table
select_max_rowid(content) ==
  IF DOMAIN content.main = {} THEN SqlNull
  ELSE SqlInt(Max(DOMAIN content.main))

\* SELECT MAX(TRAI) FROM <prefix>_data: NULL on an empty table
select_max_trai(content) ==
  IF DOMAIN content.main = {} THEN SqlNull
  ELSE SqlInt(Max({content.main[r] : r \in DOMAIN content.main}))

\* Variant: the UPDATE without its WHERE clause
sql_update_all(ginfo, key, v) == [k \in DOMAIN ginfo |-> v]

\* UPDATE <prefix>_globalinfo SET Value = v WHERE Key == key
sql_update(ginfo, key, v) ==
  [k \in DOMAIN ginfo |-> IF k = key THEN v ELSE ginfo[k]]

\* ------------------------------------------------------------ the handle
VARIABLES
  catalog,       \* the file: [exists, tables, trai (main table has TRAI)]
  disk,          \* committed content: [main, ginfo, params]
  view,          \* content seen through the connection, pending changes too
  phase,         \* "none" | "failed" | "open" | "finalized"
  attrs,         \* attributes __init__ has assigned
  filename,      \* _filename: the text of the file's extension
  readonly,      \* _readonly
  table_prefix,  \* _table_prefix
  connected,     \* _connected
  conn,          \* physical connection: "none" | "open" | "closed" | "released"
  lastOp,        \* the operation that ran last
  result,        \* "ok" or the exception it raised
  retval,        \* the value it returned
  steps,         \* what it issued to the connection / assigned, in order
  flushed,       \* a write handle's close() committed and nothing was written since
  writers,       \* two write handles on one file, each [pc, connected, ...]
  shared         \* the writers of the two whose changes that file has committed

\* The single handle and its file
single == <<catalog, disk, view, phase, attrs, filename, readonly,
            table_prefix, connected, conn, lastOp, result, retval, steps,
            flushed>>

vars == <<catalog, disk, view, phase, attrs, filename, readonly, table_prefix,
          connected, conn, lastOp, result, retval, steps, flushed, writers,
          shared>>

store == <<catalog, disk, view>>
handle == <<phase, attrs, filename, readonly, table_prefix, connected, conn>>

NoValue == PyNone

\* Outcome of a method: the exception (or "none"), the returned value, the
\* statements issued, and the content seen through the connection afterwards.
Outcome(exc, val, st, content) ==
  [exc |-> exc, val |-> val, steps |-> st, view |-> content]

\* Variant: connection() without the check of _connected
connection_unchecked(isConnected) == "none"

\* Database.connection: raises when the handle is not connected
connection(isConnected) ==
  IF ~isConnected THEN "NotConnected" ELSE "none"

\* Database.rows
rows(isConnected, content) ==
  IF connection(isConnected) # "none"
  THEN Outcome("NotConnected", NoValue, <<>>, content)
  ELSE Outcome("none", PyInt(select_count(content)), <<"select_count">>, content)

\* Database.columns: the main table's columns; a zero-row projection
columns(isConnected, cat, content) ==
  IF connection(isConnected) # "none"
  THEN Outcome("NotConnected", NoValue, <<>>, content)
  ELSE Outcome("none", IF cat.trai THEN <<"x", "TRAI">> ELSE <<"x">>,
               <<"select_limit0">>, content)

\* Database.tables
tables(isConnected, cat, content) ==
  IF connection(isConnected) # "none"
  THEN Outcome("NotConnected", NoValue, <<>>, content)
  ELSE Outcome("none", cat.tables, <<"select_tables">>, content)

\* The dict comprehension of globalinfo over the fetched rows conv (key ->
\* outcome of try_convert_string): an exception of a conversion propagates.
globalinfo_rows(conv, content) ==
  IF \E k \in DOMAIN conv : conv[k].exc # "none"
  THEN Outcome("DecodeError", NoValue, <<"select_globalinfo">>, content)
  ELSE Outcome("none", [k \in DOMAIN conv |-> conv[k].val],
               <<"select_globalinfo">>, content)

\* Database.globalinfo
globalinfo(isConnected, cat, prefix, content) ==
  IF connection(isConnected) # "none"
  THEN Outcome("NotConnected", NoValue, <<>>, content)
  ELSE IF TableName(prefix, "globalinfo") \notin cat.tables
  THEN Outcome("QueryFailed", NoValue, <<"select_globalinfo">>, content)
  ELSE globalinfo_rows([k \in DOMAIN content.ginfo |->
                          try_convert_string(Str(content.ginfo[k]))],
                       content)

\* The UPDATE of the key ValidSets in _update_globalinfo
update_ValidSets(keys, content) ==
  IF "ValidSets" \in keys
  THEN [content EXCEPT !.ginfo =
          sql_update(@, "ValidSets", select_max_rowid(content))]
  ELSE content

\* The UPDATE of the key TRAI in _update_globalinfo, after the statements st
\* and on the content c1 the first UPDATE left: it fails when the main table
\* has no TRAI column, and the first UPDATE stays pending.
update_TRAI(keys, cat, st, c1) ==
  IF "TRAI" \notin keys THEN Outcome("none", NoValue, st, c1)
  ELSE IF ~cat.trai
  THEN Outcome("QueryFailed", NoValue, st \o <<"update_TRAI">>, c1)
  ELSE Outcome("none", NoValue, st \o <<"update_TRAI">>,
               [c1 EXCEPT !.ginfo = sql_update(@, "TRAI", select_max_trai(c1))])

\* The body of Database._update_globalinfo, given the outcome g of its call
\* of globalinfo()
update_globalinfo_body(g, cat, content) ==
  IF g.exc # "none" THEN Outcome(g.exc, NoValue, g.steps, content)
  ELSE update_TRAI(DOMAIN g.val, cat,
                   IF "ValidSets" \in DOMAIN g.val
                   THEN g.steps \o <<"update_ValidSets">> ELSE g.steps,
                   update_ValidSets(DOMAIN g.val, content))

\* Variant: a mutating method without the guard
no_write_guard(isReadonly) == FALSE

\* require_write_access: the guard placed in front of a mutating method; TRUE
\* when it raises
require_write_access(isReadonly) == isReadonly

\* Database._update_globalinfo, decorated
update_globalinfo(isReadonly, isConnected, cat, prefix, content) ==
  IF require_write_access(isReadonly)
  THEN Outcome("ReadOnlyViolation", NoValue, <<>>, content)
  ELSE update_globalinfo_body(globalinfo(isConnected, cat, prefix, content),
                              cat, content)

\* read_sql_generator(connection, "SELECT * FROM <prefix>_params"): one
\* column -> value dictionary per row of the table, as the table is at the
\* time of the call.
read_sql_generator(table) == table

\* row.pop("ID"): the identifier taken out of a row, and the row without it
pop_ID(row) == [c \in DOMAIN row \ {"ID"} |-> row[c]]

\* def parameter_by_id(): ...; return dict(parameter_by_id())
parameter_by_id(dicts) ==
  [i \in {row["ID"] : row \in dicts} |->
     pop_ID(CHOOSE row \in dicts : row["ID"] = i)]

\* Variant: the rows kept whole, the ID column included
parameter_table_keeps_id(isConnected, cat, prefix, content) ==
  IF connection(isConnected) # "none"
  THEN Outcome("NotConnected", NoValue, <<>>, content)
  ELSE IF TableName(prefix, "params") \notin cat.tables
  THEN Outcome("QueryFailed", NoValue, <<"select_params">>, content)
  ELSE Outcome("none",
               [i \in {row["ID"] : row \in content.params} |->
                  CHOOSE row \in content.params : row["ID"] = i],
               <<"select_params">>, content)

\* Variant: the table as it was committed, not as the connection sees it
parameter_table_stale(isConnected, cat, prefix, content) ==
  IF connection(isConnected) # "none"
  THEN Outcome("NotConnected", NoValue, <<>>, content)
  ELSE IF TableName(prefix, "params") \notin cat.tables
  THEN Outcome("QueryFailed", NoValue, <<"select_params">>, content)
  ELSE Outcome("none", parameter_by_id(read_sql_generator(disk.params)),
               <<"select_params">>, content)

\* Database._parameter_table: a full scan of <prefix>_params on every call,
\* keyed by the ID column, which is removed from each row
parameter_table(isConnected, cat, prefix, content) ==
  IF connection(isConnected) # "none"
  THEN Outcome("NotConnected", NoValue, <<>>, content)
  ELSE IF TableName(prefix, "params") \notin cat.tables
  THEN Outcome("QueryFailed", NoValue, <<"select_params">>, content)
  ELSE Outcome("none", parameter_by_id(read_sql_generator(content.params)),
               <<"select_params">>, content)

\* The message of the ValueError of _parameter:
\* f"Parameter ID {param_id} not found in {self._table_params}"
NotFoundMessage(param_id, table) ==
  <<"Parameter ID", param_id, "not found in", table>>

\* The lookup of _parameter in the outcome t of _parameter_table(): a KeyError
\* becomes the ValueError with the message above.
parameter_lookup(t, content, table, param_id) ==
  IF t.exc # "none" THEN t
  ELSE IF param_id \notin DOMAIN t.val
       THEN Outcome("NotFound", NotFoundMessage(param_id, table), t.steps,
                    content)
       ELSE Outcome("none", t.val[param_id], t.steps, content)

\* Database._parameter
parameter(isConnected, cat, prefix, content, param_id) ==
  parameter_lookup(parameter_table(isConnected, cat, prefix, content),
                   content, TableName(prefix, "params"), param_id)

\* What close() does after the summary recompute on a write handle: commit,
\* physical close, then the flag.
CloseTail == <<"commit", "close", "connected=False">>

\* Variant: the commit issued before the summary recompute
close_write_commit_first(u, committed, commit_ok) ==
  IF u.exc # "none"
  THEN [exc |-> u.exc, steps |-> <<"commit">> \o u.steps, view |-> u.view,
        disk |-> committed, closed |-> FALSE, connected |-> TRUE]
  ELSE [exc |-> "none",
        steps |-> <<"commit">> \o u.steps \o <<"close", "connected=False">>,
        view |-> committed, disk |-> committed, closed |-> TRUE,
        connected |-> FALSE]

\* Variant: the connection closed without the commit
close_write_no_commit(u, committed, commit_ok) ==
  IF u.exc # "none"
  THEN [exc |-> u.exc, steps |-> u.steps, view |-> u.view,
        disk |-> committed, closed |-> FALSE, connected |-> TRUE]
  ELSE [exc |-> "none", steps |-> u.steps \o <<"close", "connected=False">>,
        view |-> committed, disk |-> committed, closed |-> TRUE,
        connected |-> FALSE]

\* Variant: the flag cleared before the recompute and the commit are tried
close_write_flag_first(u, committed, commit_ok) ==
  IF u.exc # "none"
  THEN [exc |-> u.exc, steps |-> <<"connected=False">> \o u.steps,
        view |-> u.view, disk |-> committed, closed |-> FALSE,
        connected |-> FALSE]
  ELSE IF ~commit_ok
  THEN [exc |-> "QueryFailed",
        steps |-> <<"connected=False">> \o u.steps \o <<"commit">>,
        view |-> u.view, disk |-> committed, closed |-> FALSE,
        connected |-> FALSE]
  ELSE [exc |-> "none",
        steps |-> <<"connected=False">> \o u.steps \o <<"commit", "close">>,
        view |-> u.view, disk |-> u.view, closed |-> TRUE,
        connected |-> FALSE]

\* close() on a connected write handle, given the outcome u of its call of
\* _update_globalinfo() and whether the engine accepts the commit: an
\* exception of either leaves the rest undone, the transaction pending.
close_write(u, committed, commit_ok) ==
  IF u.exc # "none"
  THEN [exc |-> u.exc, steps |-> u.steps, view |-> u.view,
        disk |-> committed, closed |-> FALSE, connected |-> TRUE]
  ELSE IF ~commit_ok
  THEN [exc |-> "QueryFailed", steps |-> u.steps \o <<"commit">>,
        view |-> u.view, disk |-> committed, closed |-> FALSE,
        connected |-> TRUE]
  ELSE [exc |-> "none", steps |-> u.steps \o CloseTail,
        view |-> u.view, disk |-> u.view, closed |-> TRUE,
        connected |-> FALSE]

\* Database.close: the exception, the statements issued and the handle and
\* store afterwards.
close(hasFlag, isReadonly, isConnected, cat, prefix, committed, content, commit_ok) ==
  IF ~hasFlag
  THEN [exc |-> "AttributeError", steps |-> <<>>, view |-> content,
        disk |-> committed, closed |-> FALSE, connected |-> isConnected]
  ELSE IF ~isConnected
  THEN [exc |-> "none", steps |-> <<>>, view |-> content,
        disk |-> committed, closed |-> FALSE, connected |-> FALSE]
  ELSE IF isReadonly
  THEN [exc |-> "none", steps |-> <<"close", "connected=False">>,
        view |-> content, disk |-> committed, closed |-> TRUE,
        connected |-> FALSE]
  ELSE close_write(update_globalinfo(isReadonly, isConnected, cat, prefix,
                                     content), committed, commit_ok)

\* str.lower on the letters of the model's alphabet
LowerChar(c) ==
  CASE c = "D" -> "d"
    [] c = "B" -> "b"
    [] c = "F" -> "f"
    [] c = "N" -> "n"
    [] c = "T" -> "t"
    [] OTHER -> c

Lower(t) == [i \in 1..Len(t) |-> LowerChar(t[i])]

\* Extensions of the file names handed to the constructor, and the values of
\* required_file_ext: <<>> is None, <<e>> is the extension e.
FileExts == {<<"D", "b">>, <<"d", "b", "s">>}
RequiredExts == {<<>>, << <<"D", "B">> >>}

\* The extension check of __init__
ext_mismatch(file_ext, required_file_ext) ==
  /\ Len(required_file_ext) = 1
  /\ Lower(file_ext) # Lower(required_file_ext[1])

\* ---------------------------------------------------------------- Init
EmptyMap == [k \in {} |-> SqlNull]

\* The two write handles of the behaviours with concurrent writers, and
\* each before its construction
Writers == {1, 2}

NoWriter ==
  [pc |-> "new", connected |-> FALSE, conn |-> "none", lock |-> "none",
   pending |-> FALSE, first |-> "none", second |-> FALSE]

\* The optional tables of a file: both, or none.
OptionalTableSets ==
  {{TableName(StorePrefix, "globalinfo"), TableName(StorePrefix, "params")},
   {}}

\* TRAI values a collaborator writes
TraiValues == {1, 2}

\* Parameter ids a caller asks for
ParamIds == {1, 2}

Catalogs ==
  {[exists |-> FALSE, tables |-> {}, trai |-> FALSE]} \cup
  {[exists |-> TRUE, tables |-> {TableName(StorePrefix, "data")} \cup opt,
    trai |-> tr] : opt \in OptionalTableSets, tr \in BOOLEAN}

\* Global-info tables a file starts with: the key Version with any of the
\* sample texts, and any of the two summary keys with an integer text.
InitialGinfo ==
  {[k \in ks \cup {"Version"} |->
      IF k = "Version" THEN SqlText(t) ELSE SqlText(IntegerText)] :
     ks \in SUBSET {"ValidSets", "TRAI"}, t \in SampleTexts}

InitialMain(cat) ==
  {[r \in {1} |-> IF cat.trai THEN 1 ELSE 0]}

\* Values of the Value column of the parameter table
ParamValues == {7, 8}

\* A row of <prefix>_params
ParamRow(id, v) == [ID |-> id, Value |-> PyInt(v)]

InitialParams(cat) ==
  IF TableName(StorePrefix, "params") \in cat.tables
  THEN {{ParamRow(1, 7)}}
  ELSE {{}}

Contents(cat) ==
  IF ~cat.exists
  THEN {[main |-> EmptyMap, ginfo |-> EmptyMap, params |-> {}]}
  ELSE {[main |-> m, ginfo |-> g, params |-> p] :
          m \in InitialMain(cat),
          g \in IF TableName(StorePrefix, "globalinfo") \in cat.tables
                THEN InitialGinfo
                ELSE {EmptyMap},
          p \in InitialParams(cat)}

Init ==
  /\ catalog \in Catalogs
  /\ disk \in Contents(catalog)
  /\ view = disk
  /\ phase = "none"
  /\ attrs = {}
  /\ filename = <<>>
  /\ readonly = TRUE
  /\ table_prefix = ""
  /\ connected = FALSE
  /\ conn = "none"
  /\ lastOp = "none"
  /\ result = "ok"
  /\ retval = NoValue
  /\ steps = <<>>
  /\ flushed = FALSE
  /\ writers = [w \in Writers |-> NoWriter]
  /\ shared = {}

\* ------------------------------------------------------------- actions
Report(op, exc, val, st) ==
  /\ lastOp' = op
  /\ result' = IF exc = "none" THEN "ok" ELSE exc
  /\ retval' = val
  /\ steps' = st
  /\ UNCHANGED <<writers, shared>>

InUse == phase = "open"

AllAttrs == {"_filename", "_readonly", "_connected", "_connection",
             "_table_prefix"}

\* Variant: the session settings applied whatever the mode
write_pragmas_any_mode(isReadonly) == <<"pragma">>

\* The session settings of __init__, for a write handle only: journal_mode =
\* WAL, locking_mode = EXCLUSIVE, synchronous = OFF in one executescript
write_pragmas(isReadonly) == IF isReadonly THEN <<>> ELSE <<"pragma">>

\* Database.__init__
New(ro, prefix, ext, req) ==
  /\ phase \in {"none", "finalized"}
  /\ conn # "open"
  /\ filename' = ext
  /\ readonly' = ro
  /\ UNCHANGED <<catalog, disk, flushed>>
  /\ IF ext_mismatch(ext, req)
     THEN /\ attrs' = {"_filename", "_readonly"}
          /\ phase' = "failed"
          /\ connected' = FALSE
          /\ conn' = "none"
          /\ table_prefix' = ""
          /\ view' = disk
          /\ Report("__init__", "InvalidFormat", NoValue, <<>>)
     ELSE IF ~catalog.exists
     THEN /\ attrs' = {"_filename", "_readonly", "_connected"}
          /\ phase' = "failed"
          /\ connected' = FALSE
          /\ conn' = "none"
          /\ table_prefix' = ""
          /\ view' = disk
          /\ Report("__init__", "OpenFailed", NoValue, <<"connect">>)
     ELSE LET t == tables(TRUE, catalog, disk)
              st == <<"connect">> \o write_pragmas(ro) \o t.steps
          IN
          /\ attrs' = AllAttrs
          /\ connected' = TRUE
          /\ conn' = "open"
          /\ table_prefix' = prefix
          /\ view' = disk
          /\ IF TableName(prefix, "data") \notin t.val
             THEN /\ phase' = "failed"
                  /\ Report("__init__", "SchemaError", NoValue, st)
             ELSE /\ phase' = "open"
                  /\ Report("__init__", "none", NoValue, st)

\* Variant: entering the context connects a handle that was closed
Enter_reopens ==
  /\ InUse
  /\ Report("__enter__", "none", NoValue,
            IF connected THEN <<>> ELSE <<"connect">>)
  /\ connected' = TRUE
  /\ conn' = "open"
  /\ UNCHANGED <<store, phase, attrs, filename, readonly, table_prefix,
                 flushed>>

\* Database.__enter__: returns self
Enter ==
  /\ InUse
  /\ UNCHANGED phase
  /\ Report("__enter__", "none", NoValue, <<>>)
  /\ UNCHANGED <<store, attrs, filename, readonly, table_prefix, connected,
                 conn, flushed>>

\* The effect on the handle and the store of a call of close() with
\* outcome c, made by op
RunClose(op, c) ==
  /\ Report(op, c.exc, NoValue, c.steps)
  /\ view' = c.view
  /\ disk' = c.disk
  /\ connected' = c.connected
  /\ conn' = IF c.closed THEN "closed" ELSE conn
  /\ flushed' = IF c.closed /\ ~readonly THEN TRUE ELSE flushed
  /\ UNCHANGED <<catalog, attrs, filename, readonly, table_prefix>>

\* Database.close
Close ==
  /\ InUse
  /\ RunClose("close", close("_connected" \in attrs, readonly, connected,
                             catalog, table_prefix, disk, view, TRUE))
  /\ UNCHANGED phase

\* Database.__exit__: the end of a with block on the handle
Exit ==
  /\ InUse
  /\ RunClose("__exit__", close("_connected" \in attrs, readonly, connected,
                                catalog, table_prefix, disk, view, TRUE))
  /\ UNCHANGED phase

\* The effect of __del__ given the outcome c of its call of close(): the
\* exception is not propagated.  A connection that close() left open goes
\* away with the object: the engine releases it and rolls the pending
\* transaction back.
RunDel(c) ==
  /\ Report("__del__", c.exc, NoValue, c.steps)
  /\ disk' = c.disk
  /\ connected' = c.connected
  /\ conn' = IF c.closed THEN "closed"
             ELSE IF conn = "open" THEN "released" ELSE conn
  /\ view' = c.disk
  /\ flushed' = IF c.closed /\ ~readonly THEN TRUE ELSE flushed
  /\ UNCHANGED <<catalog, attrs, filename, readonly, table_prefix>>

\* Database.__del__: the object is finalized, whether __init__ raised or the
\* caller dropped it.
Del ==
  /\ phase \in {"open", "failed"}
  /\ RunDel(close("_connected" \in attrs, readonly, connected, catalog,
                  table_prefix, disk, view, TRUE))
  /\ phase' = "finalized"

\* A read-only or mutating method called by op: its outcome is reported and
\* the content seen through the connection replaced.
Call(op, o) ==
  /\ InUse
  /\ Report(op, o.exc, o.val, o.steps)
  /\ view' = o.view
  /\ UNCHANGED <<catalog, disk, handle, flushed>>

Connection ==
  Call("connection", Outcome(connection(connected), NoValue, <<>>, view))

Rows == Call("rows", rows(connected, view))

Columns == Call("columns", columns(connected, catalog, view))

Tables == Call("tables", tables(connected, catalog, view))

Globalinfo ==
  Call("globalinfo", globalinfo(connected, catalog, table_prefix, view))

UpdateGlobalinfo ==
  Call("_update_globalinfo",
       update_globalinfo(readonly, connected, catalog, table_prefix, view))

ParameterTable ==
  Call("_parameter_table",
       parameter_table(connected, catalog, table_prefix, view))

Parameter(param_id) ==
  Call("_parameter",
       parameter(connected, catalog, table_prefix, view, param_id))

\* A collaborator's write through connection(): INSERT INTO <prefix>_data.
\* The engine assigns the next rowid; it refuses writes on a read-only
\* connection.
InsertRow(trai) ==
  /\ InUse
  /\ LET rowid == IF DOMAIN view.main = {} THEN 1
                  ELSE Max(DOMAIN view.main) + 1
         tr == IF catalog.trai THEN trai ELSE 0
     IN
     /\ rowid <= MaxRowid
     /\ IF connection(connected) # "none"
        THEN /\ Report("insert", "NotConnected", NoValue, <<>>)
             /\ UNCHANGED <<view, flushed>>
        ELSE IF readonly
        THEN /\ Report("insert", "QueryFailed", NoValue, <<"insert">>)
             /\ UNCHANGED <<view, flushed>>
        ELSE /\ Report("insert", "none", NoValue, <<"insert">>)
             /\ view' = [view EXCEPT !.main =
                           [r \in DOMAIN @ \cup {rowid} |->
                              IF r = rowid THEN tr ELSE @[r]]]
             /\ flushed' = FALSE
  /\ UNCHANGED <<catalog, disk, handle>>

\* A collaborator's write through connection(): DELETE FROM <prefix>_data
\* WHERE rowid = r.
DeleteRow(rowid) ==
  /\ InUse
  /\ rowid \in DOMAIN view.main
  /\ IF connection(connected) # "none"
     THEN /\ Report("delete", "NotConnected", NoValue, <<>>)
          /\ UNCHANGED <<view, flushed>>
     ELSE IF readonly
     THEN /\ Report("delete", "QueryFailed", NoValue, <<"delete">>)
          /\ UNCHANGED <<view, flushed>>
     ELSE /\ Report("delete", "none", NoValue, <<"delete">>)
          /\ view' = [view EXCEPT !.main =
                        [r \in DOMAIN @ \ {rowid} |-> @[r]]]
          /\ flushed' = FALSE
  /\ UNCHANGED <<catalog, disk, handle>>

Next ==
  \/ \E ro \in BOOLEAN, prefix \in Prefixes, ext \in FileExts,
        req \in RequiredExts : New(ro, prefix, ext, req)
  \/ Enter
  \/ Close
  \/ Exit
  \/ Del
  \/ Connection
  \/ Rows
  \/ Columns
  \/ Tables
  \/ Globalinfo
  \/ UpdateGlobalinfo
  \/ ParameterTable
  \/ \E param_id \in ParamIds : Parameter(param_id)
  \/ \E trai \in TraiValues : InsertRow(trai)
  \/ \E rowid \in 1..MaxRowid : DeleteRow(rowid)

Spec == Init /\ [][Next]_vars

\* ------------------------------------------------- the parameter table
\* A collaborator's write through connection(): INSERT OR REPLACE INTO
\* <prefix>_params.  The engine refuses it on a read-only connection and on
\* a file without the table.
InsertParam(id, v) ==
  /\ InUse
  /\ IF connection(connected) # "none"
     THEN /\ Report("insert_param", "NotConnected", NoValue, <<>>)
          /\ UNCHANGED <<view, flushed>>
     ELSE IF readonly \/ TableName(table_prefix, "params") \notin catalog.tables
     THEN /\ Report("insert_param", "QueryFailed", NoValue,
                    <<"insert_param">>)
          /\ UNCHANGED <<view, flushed>>
     ELSE /\ Report("insert_param", "none", NoValue, <<"insert_param">>)
          /\ view' = [view EXCEPT !.params =
                        {row \in @ : row["ID"] # id} \cup {ParamRow(id, v)}]
          /\ flushed' = FALSE
  /\ UNCHANGED <<catalog, disk, handle>>

\* A collaborator's write through connection(): DELETE FROM <prefix>_params
\* WHERE ID = id.
DeleteParam(id) ==
  /\ InUse
  /\ IF connection(connected) # "none"
     THEN /\ Report("delete_param", "NotConnected", NoValue, <<>>)
          /\ UNCHANGED <<view, flushed>>
     ELSE IF readonly \/ TableName(table_prefix, "params") \notin catalog.tables
     THEN /\ Report("delete_param", "QueryFailed", NoValue,
                    <<"delete_param">>)
          /\ UNCHANGED <<view, flushed>>
     ELSE /\ Report("delete_param", "none", NoValue, <<"delete_param">>)
          /\ view' = [view EXCEPT !.params = {row \in @ : row["ID"] # id}]
          /\ flushed' = FALSE
  /\ UNCHANGED <<catalog, disk, handle>>

\* Files for the behaviours of the parameter table: the main table has a
\* TRAI column and the summary, where there is one, has all three keys with
\* texts that decode.
InitParams ==
  /\ Init
  /\ catalog.exists
  /\ catalog.trai
  /\ "Version" \in DOMAIN disk.ginfo =>
       /\ DOMAIN disk.ginfo = Keys
       /\ disk.ginfo["Version"] = SqlText(<<"1", "+">>)

NextParams ==
  \/ \E ro \in BOOLEAN, prefix \in Prefixes, ext \in FileExts,
        req \in RequiredExts : New(ro, prefix, ext, req)
  \/ Close
  \/ Del
  \/ ParameterTable
  \/ \E param_id \in ParamIds : Parameter(param_id)
  \/ \E id \in ParamIds, v \in ParamValues : InsertParam(id, v)
  \/ \E id \in ParamIds : DeleteParam(id)

SpecParams == InitParams /\ [][NextParams]_vars

\* ------------------------------------------------ a commit that raises
\* close(), __exit__ and __del__ on a connected write handle when the engine
\* refuses the commit (sqlite3.OperationalError out of commit()).
CommitReached == connected /\ ~readonly /\ "_connected" \in attrs

CloseRefused ==
  /\ InUse
  /\ CommitReached
  /\ RunClose("close", close("_connected" \in attrs, readonly, connected,
                             catalog, table_prefix, disk, view, FALSE))
  /\ UNCHANGED phase

ExitRefused ==
  /\ InUse
  /\ CommitReached
  /\ RunClose("__exit__", close("_connected" \in attrs, readonly, connected,
                                catalog, table_prefix, disk, view, FALSE))
  /\ UNCHANGED phase

DelRefused ==
  /\ phase \in {"open", "failed"}
  /\ CommitReached
  /\ RunDel(close("_connected" \in attrs, readonly, connected, catalog,
                  table_prefix, disk, view, FALSE))
  /\ phase' = "finalized"

NextFaults ==
  \/ Next
  \/ CloseRefused
  \/ ExitRefused
  \/ DelRefused

SpecFaults == Init /\ [][NextFaults]_vars

\* ----------------------------------------------- two concurrent writers
\* Two write handles constructed on one file, statement by statement.  The
\* file has the main table and the summary keys, and its journal mode is
\* already WAL, as it is for every file a write handle was opened on before.
\* Under the settings __init__ applies (locking_mode = EXCLUSIVE after
\* journal_mode = WAL) the engine takes a connection's locks when it first
\* needs them and keeps them until the connection goes: a shared lock at the
\* first read, an exclusive lock at the first write.
Other(w) == CHOOSE o \in Writers : o # w

\* The engine lets w read unless the other connection holds the exclusive
\* lock, and lets it write only if the other connection holds no lock.
engine_read_ok(w) == writers[Other(w)].lock # "exclusive"

engine_write_ok(w) == writers[Other(w)].lock = "none"

\* __init__, lines 43-52: _connected = False, sqlite3.connect (which opens
\* the file without locking it), _connected = True
W_connect(w) ==
  /\ writers[w].pc = "new"
  /\ writers' = [writers EXCEPT ![w] =
                   [@ EXCEPT !.pc = "connected", !.connected = TRUE,
                             !.conn = "open",
                             !.second = writers[Other(w)].connected]]
  /\ UNCHANGED <<shared, single>>

\* __init__, lines 55-62: the executescript of the three pragmas; the first
\* one reads the file.  A refusal leaves __init__ by the exception.
W_pragmas(w) ==
  /\ writers[w].pc = "connected"
  /\ writers' = [writers EXCEPT ![w] =
                   IF engine_read_ok(w)
                   THEN [@ EXCEPT !.pc = "configured", !.lock = "shared"]
                   ELSE [@ EXCEPT !.pc = "failed"]]
  /\ UNCHANGED <<shared, single>>

\* __init__, lines 64-74: the table names and the main-table check, a read
W_tables(w) ==
  /\ writers[w].pc = "configured"
  /\ writers' = [writers EXCEPT ![w] =
                   IF engine_read_ok(w)
                   THEN [@ EXCEPT !.pc = "open"]
                   ELSE [@ EXCEPT !.pc = "failed"]]
  /\ UNCHANGED <<shared, single>>

\* What the first statement after the construction came to
FirstOutcome(old, ok) ==
  IF old # "none" THEN old ELSE IF ok THEN "ok" ELSE "locked"

\* Database.rows on a constructed handle
W_rows(w) ==
  /\ writers[w].pc = "open"
  /\ writers[w].connected
  /\ writers' = [writers EXCEPT ![w].first =
                   FirstOutcome(@, engine_read_ok(w))]
  /\ UNCHANGED <<shared, single>>

\* A collaborator's INSERT through connection()
W_insert(w) ==
  /\ writers[w].pc = "open"
  /\ writers[w].connected
  /\ writers' = [writers EXCEPT ![w] =
                   IF engine_write_ok(w)
                   THEN [@ EXCEPT !.lock = "exclusive", !.pending = TRUE,
                                  !.first = FirstOutcome(@, TRUE)]
                   ELSE [@ EXCEPT !.first = FirstOutcome(@, FALSE)]]
  /\ UNCHANGED <<shared, single>>

\* close() of a constructed, connected write handle goes through when the
\* engine accepts the UPDATE of _update_globalinfo
close_goes_through(w) ==
  writers[w].pc = "open" /\ writers[w].connected /\ engine_write_ok(w)

\* The writer after a close() that went through
Closed(r) ==
  [r EXCEPT !.connected = FALSE, !.conn = "closed", !.lock = "none",
            !.pending = FALSE]

\* Database.close on a constructed handle: the recompute, the commit, the
\* physical close and the flag; a refused UPDATE leaves all of it undone.
W_close(w) ==
  /\ writers[w].pc = "open"
  /\ IF close_goes_through(w)
     THEN /\ writers' = [writers EXCEPT ![w] = Closed(@)]
          /\ shared' = shared \cup {w}
     ELSE UNCHANGED <<writers, shared>>
  /\ UNCHANGED single

\* Database.__del__ on a constructed object or one whose __init__ raised:
\* close() with its exception dropped, then the connection goes with the
\* object and the engine rolls back what it had pending.
W_del(w) ==
  /\ writers[w].pc \in {"open", "failed"}
  /\ IF close_goes_through(w)
     THEN /\ writers' = [writers EXCEPT ![w] = [Closed(@) EXCEPT
                                                  !.pc = "finalized"]]
          /\ shared' = shared \cup {w}
     ELSE /\ writers' = [writers EXCEPT ![w] =
                           [@ EXCEPT !.pc = "finalized", !.lock = "none",
                                     !.pending = FALSE,
                                     !.conn = IF @ = "open" THEN "released"
                                              ELSE @]]
          /\ UNCHANGED shared
  /\ UNCHANGED single

\* The file the two writers share, the single handle staying unused
InitWriters ==
  /\ InitParams
  /\ DOMAIN disk.ginfo = Keys

NextWriters ==
  \E w \in Writers :
    \/ W_connect(w)
    \/ W_pragmas(w)
    \/ W_tables(w)
    \/ W_rows(w)
    \/ W_insert(w)
    \/ W_close(w)
    \/ W_del(w)

SpecWriters == InitWriters /\ [][NextWriters]_vars

\* ------------------------------------------------------------- claims
\* The operations of a handle other than close()
OtherOps == {"rows", "columns", "tables", "globalinfo", "_update_globalinfo",
             "_parameter_table", "_parameter", "connection"}

\* The operations that run close()
CloseOps == {"close", "__exit__", "__del__"}

Issued(x) == \E i \in 1..Len(steps) : steps[i] = x

\* C1 as stated: once close() has completed on a handle, connected is false
\* and every operation other than close() fails with NotConnected, and with
\* no other error, without touching the store.
C1_AfterCloseNotConnected ==
  [][(phase = "open" /\ ~connected /\ phase' = "open" /\ lastOp' \in OtherOps)
       => /\ result' = "NotConnected"
          /\ steps' = <<>>
          /\ ~connected'
          /\ UNCHANGED <<store, handle>>]_vars

\* C1 amended: once close() has completed, connected is false and every
\* operation other than close() fails without touching the store: with
\* ReadOnlyViolation for _update_globalinfo on a read-only handle, with
\* NotConnected in every other case.
C1_AfterCloseFails ==
  [][(phase = "open" /\ ~connected /\ phase' = "open" /\ lastOp' \in OtherOps)
       => /\ result' = IF lastOp' = "_update_globalinfo" /\ readonly
                       THEN "ReadOnlyViolation" ELSE "NotConnected"
          /\ steps' = <<>>
          /\ ~connected'
          /\ UNCHANGED <<store, handle>>]_vars

C1_Witness ==
  /\ phase = "open" /\ ~connected /\ conn = "closed"
  /\ lastOp = "globalinfo" /\ result = "NotConnected"

\* C2 as stated: when __init__ raises SchemaError for a missing main table,
\* the handle reports not-connected and the physical connection is closed.
C2_SchemaErrorLeavesClosed ==
  (lastOp = "__init__" /\ result = "SchemaError")
    => (~connected /\ conn # "open")

\* C3 as stated: after a call of close() on a successfully opened handle, a
\* second call raises no error, recomputes, commits and closes nothing, and
\* leaves handle and store as they are, connected being false.
C3_CloseIdempotent ==
  (phase = "open" /\ lastOp = "close")
    => /\ ~connected
       /\ close("_connected" \in attrs, readonly, connected, catalog,
                table_prefix, disk, view, TRUE)
            = [exc |-> "none", steps |-> <<>>, view |-> view, disk |-> disk,
               closed |-> FALSE, connected |-> FALSE]

IsRecompute(x) == x \in {"select_globalinfo", "update_ValidSets", "update_TRAI"}

\* C4: close() on a connected write handle recomputes the summary, then
\* commits, then closes the connection, then clears the connected flag, each
\* step only after the one before it has completed (an exception of the
\* recompute leaves the later steps undone); on a connected read-only handle
\* it only closes the connection and clears the flag.
C4_CloseOrder ==
  (lastOp \in CloseOps /\ "_connected" \in attrs /\ steps # <<>>)
    => IF readonly
       THEN steps = <<"close", "connected=False">> /\ result = "ok"
       ELSE /\ steps[1] = "select_globalinfo"
            /\ IF result = "ok"
               THEN /\ Len(steps) >= 4
                    /\ SubSeq(steps, Len(steps) - 2, Len(steps)) =
                         <<"commit", "close", "connected=False">>
                    /\ \A i \in 1..(Len(steps) - 3) : IsRecompute(steps[i])
                    /\ ~connected
                    /\ disk = view
               ELSE /\ \A i \in 1..Len(steps) : IsRecompute(steps[i])
                    /\ connected

C4_Witness ==
  /\ lastOp = "close" /\ ~readonly /\ result = "ok"
  /\ steps = <<"select_globalinfo", "update_ValidSets", "update_TRAI",
               "commit", "close", "connected=False">>

\* C5: on a connected read-only handle _update_globalinfo fails with
\* ReadOnlyViolation before any statement is issued, and the store is the
\* same after the call as before it.
C5_ReadOnlyGuard ==
  [][(phase = "open" /\ readonly /\ connected /\ phase' = "open"
      /\ lastOp' = "_update_globalinfo")
       => /\ result' = "ReadOnlyViolation"
          /\ steps' = <<>>
          /\ UNCHANGED <<store, handle>>]_vars

C5_Witness ==
  /\ phase = "open" /\ readonly /\ connected
  /\ lastOp = "_update_globalinfo" /\ result = "ReadOnlyViolation"
  /\ {"ValidSets", "TRAI"} \subseteq DOMAIN view.ginfo

\* What globalinfo() returned for the key ValidSets on a connected read-only
\* handle opened after a write handle's close() committed
ReadBackValidSets ==
  /\ phase = "open" /\ readonly /\ connected /\ flushed
  /\ lastOp = "globalinfo" /\ result = "ok"
  /\ "ValidSets" \in DOMAIN retval

\* C6 as stated: after writes through a write handle, close() and a
\* read-only reopen, globalinfo()["ValidSets"] equals the row count rows()
\* returns.
C6_ValidSetsIsRowCount ==
  ReadBackValidSets
    => retval["ValidSets"] = rows(connected, view).val

\* C6 amended: after writes through a write handle, close() and a read-only
\* reopen, globalinfo()["ValidSets"] is the largest rowid of the main table,
\* and None when the main table is empty.
C6_ValidSetsIsMaxRowid ==
  ReadBackValidSets
    => IF DOMAIN view.main = {}
       THEN retval["ValidSets"] = PyNone
       ELSE /\ retval["ValidSets"].t = "int"
            /\ retval["ValidSets"].n \in DOMAIN view.main
            /\ \A r \in DOMAIN view.main : r <= retval["ValidSets"].n

C6_Witness ==
  /\ ReadBackValidSets
  /\ DOMAIN view.main = {2}
  /\ retval["ValidSets"] = PyInt(2)

\* C7 as stated: globalinfo() never fails because of a stored value: a value
\* that parses as a literal is returned as that literal, any other value as
\* the unchanged string.
C7_GlobalinfoDecodes ==
  (phase = "open" /\ connected /\ lastOp = "globalinfo"
   /\ TableName(table_prefix, "globalinfo") \in catalog.tables)
    => /\ result = "ok"
       /\ DOMAIN retval = DOMAIN view.ginfo
       /\ \A k \in DOMAIN view.ginfo :
            retval[k] =
              IF literal_eval(Str(view.ginfo[k])).exc = "none"
              THEN literal_eval(Str(view.ginfo[k])).val
              ELSE PyStr(Str(view.ginfo[k]))

\* C8 as stated: __exit__ on a successfully opened handle ends with the
\* summary update flushed, the connection closed and connected false, and
\* the close() of a later __del__ does nothing.
C8_ExitCloses ==
  (phase = "open" /\ lastOp = "__exit__")
    => /\ result = "ok"
       /\ ~connected
       /\ conn = "closed"
       /\ disk = view
       /\ close("_connected" \in attrs, readonly, connected, catalog,
                table_prefix, disk, view, TRUE).steps = <<>>

\* C9: _update_globalinfo on a write handle leaves the key set of the
\* global-info table, the value of every key other than ValidSets and TRAI,
\* the main table and the committed content as they are; with neither key
\* present it changes nothing.
C9_UpdateFrame ==
  [][(phase = "open" /\ ~readonly /\ phase' = "open"
      /\ lastOp' = "_update_globalinfo")
       => /\ DOMAIN view'.ginfo = DOMAIN view.ginfo
          /\ \A k \in DOMAIN view.ginfo \ {"ValidSets", "TRAI"} :
               view'.ginfo[k] = view.ginfo[k]
          /\ view'.main = view.main
          /\ view'.params = view.params
          /\ UNCHANGED <<disk, catalog, handle>>
          /\ (DOMAIN view.ginfo \cap {"ValidSets", "TRAI"} = {}
                => view' = view)]_vars

C9_Witness ==
  /\ phase = "open" /\ ~readonly /\ connected
  /\ lastOp = "_update_globalinfo" /\ result = "ok"
  /\ Issued("update_ValidSets")
  /\ "Version" \in DOMAIN view.ginfo
  /\ view.ginfo["ValidSets"] # disk.ginfo["ValidSets"]

\* v is the largest element of S, NULL when S is empty
IsSqlMax(v, S) ==
  IF S = {} THEN v = SqlNull
  ELSE v.t = "integer" /\ v.n \in S /\ \A x \in S : x <= v.n

SummaryOf(content) ==
  /\ "ValidSets" \in DOMAIN content.ginfo
       => IsSqlMax(content.ginfo["ValidSets"], DOMAIN content.main)
  /\ "TRAI" \in DOMAIN content.ginfo
       => IsSqlMax(content.ginfo["TRAI"],
                   {content.main[r] : r \in DOMAIN content.main})

\* C10: when _update_globalinfo has completed on a write handle, a present
\* key ValidSets holds the largest rowid of the main table and a present key
\* TRAI the largest TRAI value (NULL for an empty table); so does the
\* content close() commits.
C10_SummaryIsMax ==
  /\ (phase = "open" /\ ~readonly /\ lastOp = "_update_globalinfo"
      /\ result = "ok") => SummaryOf(view)
  /\ (lastOp \in CloseOps /\ ~readonly /\ Issued("commit")) => SummaryOf(disk)

C10_Witness ==
  /\ lastOp = "close" /\ ~readonly /\ Issued("commit")
  /\ {"ValidSets", "TRAI"} \subseteq DOMAIN disk.ginfo
  /\ DOMAIN disk.main = {1, 2}
  /\ disk.main[1] = 2 /\ disk.main[2] = 1
  /\ disk.ginfo["TRAI"] = SqlInt(2)
  /\ disk.ginfo["ValidSets"] = SqlInt(2)

\* The parameter table exists in the file the handle is open on
HasParams == TableName(table_prefix, "params") \in catalog.tables

\* C11: on a connected handle _parameter(id) raises NotFound, with the id and
\* the name of the parameter table in its message, when the table has no row
\* with that ID; when it has one, it returns the row's columns and values
\* without the ID column, which is _parameter_table()[id].
C11_ParameterLookup ==
  [][\A id \in ParamIds :
       (Parameter(id) /\ connected /\ HasParams) =>
         IF \E row \in view.params : row["ID"] = id
         THEN /\ result' = "ok"
              /\ \E row \in view.params :
                    /\ row["ID"] = id
                    /\ DOMAIN retval' = {"Value"}
                    /\ retval'["Value"] = row["Value"]
              /\ retval' = parameter_table(connected, catalog, table_prefix,
                                           view).val[id]
         ELSE /\ result' = "NotFound"
              /\ retval'[2] = id
              /\ retval'[4] = TableName(table_prefix, "params")]_vars

\* _parameter returned a row that was written after the file was opened
C11_Witness ==
  /\ lastOp = "_parameter"
  /\ result = "ok"
  /\ connected
  /\ retval = [Value |-> PyInt(8)]
  /\ \E row \in view.params : row["Value"] = PyInt(8)

\* The extension check raised before anything was opened, and only on a file
\* extension that differs from the required one when both are lowered.
C12_CheckBeforeOpen ==
  /\ (lastOp = "__init__" /\ result = "InvalidFormat") =>
       /\ steps = <<>>
       /\ conn = "none"
       /\ \E req \in RequiredExts :
            Len(req) = 1 /\ Lower(filename) # Lower(req[1])
  /\ (lastOp = "__init__" /\ Lower(filename) = <<"d", "b">>) =>
       result # "InvalidFormat"

\* C12: a construction that fails the extension check (compared without
\* regard to case) fails with InvalidFormat before any attempt to open the
\* file, a matching extension in any case passes the check, and the later
\* finalization of the failed object raises no error.
C12_FailedConstructionFinalizes ==
  /\ C12_CheckBeforeOpen
  /\ (lastOp = "__del__" /\ "_connected" \notin attrs) => result = "ok"

\* C13: _parameter_table() keeps no cache: every call on a connected handle
\* returns exactly the rows the parameter table has at the time of the call,
\* keyed by ID, whatever inserts and deletes came before it.
C13_ParameterTableFresh ==
  [][(ParameterTable /\ connected /\ HasParams) =>
       /\ result' = "ok"
       /\ DOMAIN retval' = {row["ID"] : row \in view.params}
       /\ \A row \in view.params :
            retval'[row["ID"]] = [Value |-> row["Value"]]]_vars

\* A scan made after the table was changed: the row the file was opened with
\* is gone and a new one is there, and the result has the new one only.
C13_Witness ==
  /\ lastOp = "_parameter_table"
  /\ result = "ok"
  /\ disk.params = {ParamRow(1, 7)}
  /\ view.params = {ParamRow(2, 8)}
  /\ DOMAIN retval = {2}

\* C14: from the end of its construction on, a handle's filename, mode and
\* table prefix stay what they were, and a connected flag that is false is
\* false for good: no operation on the handle sets it again.
C14_AttributesFixed ==
  [][(phase \in {"open", "failed"}) =>
       /\ filename' = filename
       /\ readonly' = readonly
       /\ table_prefix' = table_prefix
       /\ ~connected => ~connected']_vars

\* A handle that was closed and then entered and used again
C14_Witness ==
  /\ phase = "open"
  /\ lastOp = "__enter__"
  /\ "_connected" \in attrs
  /\ ~connected
  /\ conn = "closed"

\* C16: on an object whose construction assigned the connected flag, after
\* every step the flag is true exactly when the connection is open: after an
\* open that failed, a main-table check that failed, and a close() whose
\* recompute or commit raised.  A close() or __exit__ that raises leaves the
\* flag true, the connection open and the committed content as it was.
C16_FlagMatchesConnection ==
  [][/\ (phase' \in {"open", "failed"} /\ "_connected" \in attrs') =>
          (connected' <=> conn' = "open")
     /\ (lastOp' \in {"close", "__exit__"} /\ result' # "ok") =>
          (connected' /\ conn' = "open" /\ disk' = disk)]_vars

\* A close() whose commit raised, with changes pending
C16_Witness ==
  /\ phase = "open"
  /\ lastOp = "close"
  /\ result = "QueryFailed"
  /\ Len(steps) > 0
  /\ steps[Len(steps)] = "commit"
  /\ connected
  /\ conn = "open"
  /\ view # disk

\* Statements that change the file or its session
Writes == {"pragma", "update_ValidSets", "update_TRAI", "commit"}

\* C17: a read-only handle never modifies the store: its construction and
\* every operation on it, close(), __exit__ and __del__ included, issue no
\* pragma, UPDATE or commit, and the content of the file, committed and as
\* seen through the connection, stays what it was when the handle opened.
C17_ReadOnlyNeverWrites ==
  [][(readonly' /\ "_readonly" \in attrs') =>
       /\ catalog' = catalog
       /\ disk' = disk
       /\ view' = disk
       /\ \A i \in 1..Len(steps') : steps'[i] \notin Writes]_vars

\* A read-only handle, opened on a file a write handle changed and closed,
\* that was used and closed
C17_Witness ==
  /\ phase = "open"
  /\ readonly
  /\ flushed
  /\ lastOp = "close"
  /\ result = "ok"
  /\ steps = <<"close", "connected=False">>
  /\ conn = "closed"

\* A writer that is constructed, connected and whose next write the engine
\* would accept
AbleToWrite(w) ==
  writers[w].pc = "open" /\ writers[w].connected /\ engine_write_ok(w)

\* Never two writers able to write, and never pending changes of both
C15_WritesExclusive ==
  /\ ~(AbleToWrite(1) /\ AbleToWrite(2))
  /\ ~(writers[1].pending /\ writers[2].pending)

\* The writer that connected while the other was connected fails in its
\* construction or on its first statement, the other being constructed and
\* still connected
C15_SecondWriterFails ==
  \A w \in Writers :
    (/\ writers[w].second
     /\ writers[w].pc = "open"
     /\ writers[Other(w)].pc = "open"
     /\ writers[Other(w)].connected)
      => writers[w].first # "ok"

\* C15: of two write handles opened concurrently on one file, in every
\* interleaving at most one is connected and able to write, the second
\* writer fails with an engine error in its construction or on its first
\* statement, and the file never holds uncommitted changes of both.
C15_SingleWriter ==
  /\ C15_WritesExclusive
  /\ C15_SecondWriterFails
====
